---- MODULE Spec2Model ----
(***************************************************************************)
(* cfgcomment: comment-based conditional compilation.                      *)
(*                                                                         *)
(* A line is a sequence of one-character strings.  The directive grammar   *)
(* (peg), the predicate evaluator, the scope stack (CfgState) and the      *)
(* per-line closure of process() are operators; walkdir_parallel's work on *)
(* one file (read the lines, write them to a temporary file, persist it    *)
(* over the original) is the state machine.  Further state machines cover  *)
(* the workers of walkdir_parallel over several files, the evaluator and   *)
(* the grammar on their own, and cfgcomment init.                          *)
(***************************************************************************)
EXTENDS Integers, Sequences, FiniteSets

VARIABLES
    file,     \* the lines of the file at its path
    config,   \* the Data of the run: [features, reset]
    pc,       \* "lines" (in the for loop), "done" (persisted), "panicked"
    idx,      \* number of lines the iterator has consumed
    state,    \* CfgState: the scope stack, a sequence of <<enabled, prefix>>
    out,      \* the lines written to the temporary file so far
    err,      \* the panic message, "none" while there is none
    orig,     \* the lines of the file before the first run
    before,   \* the lines of the file when the current run opened it
    runs,     \* the configs of the runs that persisted, oldest first
    tree,     \* walkdir_parallel: the entries under the paths when the walk began
    disk,     \* walkdir_parallel: the entries under the paths now
    visit,    \* walkdir_parallel: per entry, the call of the closure on it
    idle,     \* walkdir_parallel: the number of walker threads not in the closure
    group,    \* Group::matches: the tree evaluated
    matched,  \* Group::matches: <<its result>>, <<>> before the call
    text,     \* cfg::cfg: the tokens between "[cfg(" and ")]" of its input
    result,   \* cfg::cfg: its result, tag "none" before the call
    git,      \* cfgcomment init: what ".git" is in the current directory
    filter,   \* cfgcomment init: the filter.cfgcomment.* keys of the git config
    attributes, \* cfgcomment init: the lines of .gitattributes
    exit      \* cfgcomment init: the position of main, or how it returned

\* the state of walkdir_parallel's work on one file, run after run
fileVars == <<file, pc, idx, state, out, err, orig, before, runs>>

\* the state of a walk over several files
walkVars == <<tree, disk, visit, idle>>

\* the state of one call of Group::matches
evalVars == <<group, matched>>

\* the state of one call of cfg::cfg
parseVars == <<text, result>>

\* the state of cfgcomment init
initVars == <<git, filter, attributes, exit>>

vars == <<config, fileVars, walkVars, evalVars, parseVars, initVars>>

----------------------------------------------------------------------------
(* Characters and strings                                                  *)

\* U+000B, the vertical tab, as one character
VT == "<VT>"

\* char::is_whitespace (Unicode White_Space), used by trim_start, trim_end, trim;
\* of the characters a line of the model can hold
is_whitespace(c) == c \in {" ", "\t", VT}

\* u8::is_ascii_whitespace: space, tab, LF, FF, CR; the vertical tab is not one
is_ascii_whitespace(c) == c \in {" ", "\t"}

starts_with(s, p) == Len(p) <= Len(s) /\ SubSeq(s, 1, Len(p)) = p

ends_with(s, p) == Len(p) <= Len(s) /\ SubSeq(s, Len(s) - Len(p) + 1, Len(s)) = p

RECURSIVE trim_start(_)
trim_start(s) ==
    IF s # <<>> /\ is_whitespace(Head(s)) THEN trim_start(Tail(s)) ELSE s

RECURSIVE trim_end(_)
trim_end(s) ==
    IF s # <<>> /\ is_whitespace(s[Len(s)])
    THEN trim_end(SubSeq(s, 1, Len(s) - 1))
    ELSE s

trim(s) == trim_end(trim_start(s))

\* s.strip_prefix(p): the rest of s, or None
strip_prefix(s, p) ==
    IF starts_with(s, p)
    THEN [some |-> TRUE, rest |-> SubSeq(s, Len(p) + 1, Len(s))]
    ELSE [some |-> FALSE, rest |-> <<>>]

\* the index (from 0) of the first byte that is not ASCII whitespace, or the length
RECURSIVE ws_end(_, _)
ws_end(s, n) ==
    IF n < Len(s) /\ is_ascii_whitespace(s[n + 1]) THEN ws_end(s, n + 1) ELSE n

split_at_ws_end(i) ==
    LET n == ws_end(i, 0)
    IN  <<SubSeq(i, 1, n), SubSeq(i, n + 1, Len(i))>>

----------------------------------------------------------------------------
(* Data, Predicate, Group                                                  *)

has_feature(data, feature) == feature \in data.features

Feature(name) == [tag |-> "Feature", name |-> name]
Option(p) == [tag |-> "Option", pred |-> p]
All(v) == [tag |-> "All", list |-> v]
Any(v) == [tag |-> "Any", list |-> v]
Not(g) == [tag |-> "Not", arg |-> g]

Predicate_matches(p, data) == has_feature(data, p.name)

\* a bug: any() of an empty list matches, as all() does
RECURSIVE Group_matches_vacuous(_, _)
Group_matches_vacuous(g, data) ==
    CASE g.tag = "Option" -> Predicate_matches(g.pred, data)
      [] g.tag = "All" ->
            \A k \in 1..Len(g.list) : Group_matches_vacuous(g.list[k], data)
      [] g.tag = "Any" ->
            \/ g.list = <<>>
            \/ \E k \in 1..Len(g.list) : Group_matches_vacuous(g.list[k], data)
      [] g.tag = "Not" -> ~Group_matches_vacuous(g.arg, data)

RECURSIVE Group_matches(_, _)
Group_matches(g, data) ==
    CASE g.tag = "Option" -> Predicate_matches(g.pred, data)
      [] g.tag = "All" -> \A k \in 1..Len(g.list) : Group_matches(g.list[k], data)
      [] g.tag = "Any" -> \E k \in 1..Len(g.list) : Group_matches(g.list[k], data)
      [] g.tag = "Not" -> ~Group_matches(g.arg, data)

----------------------------------------------------------------------------
(* The directive grammar.  A position is the index of the next character   *)
(* to read; position 0 is a failed match and every rule passes it on.      *)

NoMatch == [pos |-> 0, val |-> "none"]

\* a literal
lit(s, i, t) ==
    IF i > 0 /\ i + Len(t) - 1 <= Len(s) /\ SubSeq(s, i, i + Len(t) - 1) = t
    THEN i + Len(t)
    ELSE 0

\* rule _ = [' ' | '\t']*
RECURSIVE ws(_, _)
ws(s, i) ==
    IF i > 0 /\ i <= Len(s) /\ s[i] \in {" ", "\t"} THEN ws(s, i + 1) ELSE i

\* (!['"'] [_])* : the position of the first '"' at or after i, or the end
RECURSIVE not_quote(_, _)
not_quote(s, i) ==
    IF i <= Len(s) /\ s[i] # "\"" THEN not_quote(s, i + 1) ELSE i

\* a match at p with value v, or no match when p is 0
at(p, v) == IF p = 0 THEN NoMatch ELSE [pos |-> p, val |-> v]

\* e1 / e2
or_else(a, b) == IF a.pos # 0 THEN a ELSE b

\* the name from p3 to the closing '"' at p4
opt_close(s, p3, p4) == at(lit(s, p4, <<"\"">>), Feature(SubSeq(s, p3, p4 - 1)))

opt_name(s, p3) == IF p3 = 0 THEN NoMatch ELSE opt_close(s, p3, not_quote(s, p3))

\* rule opt() -> Predicate
\*     = "feature" _ "=" _ "\"" s:$((!['"'] [_])*) "\""
opt(s, i) ==
    opt_name(s, lit(s, ws(s, lit(s, ws(s, lit(s, i,
        <<"f", "e", "a", "t", "u", "r", "e">>)), <<"=">>)), <<"\"">>))

\* rule list_sep() = _ "," _
list_sep(s, i) == ws(s, lit(s, ws(s, i), <<",">>))

\* keyword _ "(" _
keyword_open(s, i, kw) == ws(s, lit(s, ws(s, lit(s, i, kw)), <<"(">>))

\* _ ")" after the match r
close_paren(s, r) == lit(s, ws(s, r.pos), <<")">>)

RECURSIVE pred(_, _), pred_rep(_, _, _)

\* list_sep()? after the list l
pred_list_end(s, l) ==
    IF l.pos = 0 THEN NoMatch
    ELSE IF list_sep(s, l.pos) = 0 THEN l
    ELSE [pos |-> list_sep(s, l.pos), val |-> l.val]

\* rule pred_list() -> Vec<Group> = l:pred()**list_sep() list_sep()?
pred_list(s, i) == pred_list_end(s, pred_rep(s, i, <<>>))

\* a bug: pred()++list_sep(), a list of no pred does not match
pred_rep_next_plus(s, i, acc, e) ==
    IF e.pos = 0 THEN (IF acc = <<>> THEN NoMatch ELSE [pos |-> i, val |-> acc])
    ELSE pred_rep(s, e.pos, Append(acc, e.val))

\* one more turn of the repetition: e is the match of the next pred
pred_rep_next(s, i, acc, e) ==
    IF e.pos = 0 THEN [pos |-> i, val |-> acc]
    ELSE pred_rep(s, e.pos, Append(acc, e.val))

\* pred()**list_sep(): zero or more pred, separated; i is after the last match
pred_rep(s, i, acc) ==
    IF i = 0 THEN NoMatch
    ELSE pred_rep_next(s, i, acc, pred(s, IF acc = <<>> THEN i ELSE list_sep(s, i)))

any_of(s, l) == at(close_paren(s, l), Any(l.val))

all_of(s, l) == at(close_paren(s, l), All(l.val))

not_of(s, e) == at(close_paren(s, e), Not(e.val))

option_of(o) == at(o.pos, Option(o.val))

\* rule pred() -> Group: ordered choice
\*     = "any" _ "(" _ l:pred_list() _ ")" / "all" _ "(" _ l:pred_list() _ ")"
\*     / "not" _ "(" _ p:pred() _ ")" / o:opt()
pred(s, i) ==
    IF i = 0 THEN NoMatch ELSE
    or_else(any_of(s, pred_list(s, keyword_open(s, i, <<"a", "n", "y">>))),
    or_else(all_of(s, pred_list(s, keyword_open(s, i, <<"a", "l", "l">>))),
    or_else(not_of(s, pred(s, keyword_open(s, i, <<"n", "o", "t">>))),
            option_of(opt(s, i)))))

\* "[" _ "cfg" _ "(" _
cfg_open(s) == keyword_open(s, ws(s, lit(s, 1, <<"[">>)), <<"c", "f", "g">>)

\* _ ")" _ "]"
cfg_close(s, i) == lit(s, ws(s, lit(s, ws(s, i), <<")">>)), <<"]">>)

CfgEnd == [tag |-> "End"]
CfgStart(g) == [tag |-> "Start", group |-> g]
ParseError == [tag |-> "Err"]

\* the tag t matched up to p: the whole input has to be matched
whole(s, p, t) == IF p = Len(s) + 1 THEN t ELSE ParseError

\* e1: the end of the first alternative; g: p:pred() of the second
cfg_choice(s, e1, g) ==
    IF e1 # 0 THEN whole(s, e1, CfgEnd)
    ELSE IF cfg_close(s, g.pos) # 0 THEN whole(s, cfg_close(s, g.pos), CfgStart(g.val))
    ELSE ParseError

cfg_body(s, p0) == cfg_choice(s, cfg_close(s, lit(s, p0, <<"e", "n", "d">>)), pred(s, p0))

\* pub(crate) rule cfg() -> CfgTag
\*     = "[" _ "cfg" _ "(" _ "end" _ ")" _ "]" / "[" _ "cfg" _ "(" _ p:pred() _ ")" _ "]"
cfg(s) == cfg_body(s, cfg_open(s))

----------------------------------------------------------------------------
(* CfgState: the scope stack, innermost frame last                         *)

CfgState_default == <<>>

\* a bug: only the innermost frame decides
CfgState_enabled_top(st) == st = <<>> \/ st[Len(st)][1]

CfgState_enabled(st) == \A k \in 1..Len(st) : st[k][1]

\* a bug: the outermost frame's prefix is returned
CfgState_prefix_first(st) == IF st = <<>> THEN <<>> ELSE st[1][2]

CfgState_prefix(st) == IF st = <<>> THEN <<>> ELSE st[Len(st)][2]

CfgState_push(st, frame) == Append(st, frame)

\* a bug: popping an empty stack is not reported
CfgState_pop_lenient(st) ==
    [some |-> TRUE, state |-> SubSeq(st, 1, Len(st) - 1)]

\* a bug: the whole stack is dropped
CfgState_pop_all(st) ==
    IF st = <<>>
    THEN [some |-> FALSE, state |-> st]
    ELSE [some |-> TRUE, state |-> <<>>]

\* Option<()> and the stack after the call
CfgState_pop(st) ==
    IF st = <<>>
    THEN [some |-> FALSE, state |-> st]
    ELSE [some |-> TRUE, state |-> SubSeq(st, 1, Len(st) - 1)]

----------------------------------------------------------------------------
(* process(): the closure that maps one line, with the stack before it.    *)
(* The result names the branch taken, the stack after it and the line      *)
(* emitted; a panic emits nothing.                                         *)

\* a bug: the end of the line is not trimmed before the suffix is looked for
is_directive_untrimmed(s, desc) ==
    /\ starts_with(trim_start(s), desc.cfg_prefix)
    /\ ends_with(s, desc.cfg_suffix)

is_directive(s, desc) ==
    /\ starts_with(trim_start(s), desc.cfg_prefix)
    /\ ends_with(trim_end(s), desc.cfg_suffix)

\* cfg::cfg(&cfg[desc.cfg_prefix_comment_len..]) on the line after its whitespace
parse_directive(s, desc) ==
    LET c == split_at_ws_end(s)[2]
    IN  cfg(SubSeq(c, desc.cfg_prefix_comment_len + 1, Len(c)))

Panic(st, msg) == [branch |-> "panic", state |-> st, line |-> <<>>, err |-> msg]

Emit(b, st, line) == [branch |-> b, state |-> st, line |-> line, err |-> "none"]

\* a bug: the remainder after the whitespace is returned instead of the line
on_tag_remainder(st, s, data, w, parsed) ==
    CASE parsed.tag = "Err" -> Panic(st, "parse error")
      [] parsed.tag = "Start" ->
            Emit("start", CfgState_push(st, <<Group_matches(parsed.group, data), w>>),
                 split_at_ws_end(s)[2])
      [] parsed.tag = "End" ->
            IF CfgState_pop(st).some
            THEN Emit("end", CfgState_pop(st).state, split_at_ws_end(s)[2])
            ELSE Panic(st, "unexpected end")

\* match parsed { Start(c) => push, End => pop().expect("unexpected end") }
on_tag(st, s, data, w, parsed) ==
    CASE parsed.tag = "Err" -> Panic(st, "parse error")
      [] parsed.tag = "Start" ->
            Emit("start", CfgState_push(st, <<Group_matches(parsed.group, data), w>>), s)
      [] parsed.tag = "End" ->
            IF CfgState_pop(st).some
            THEN Emit("end", CfgState_pop(st).state, s)
            ELSE Panic(st, "unexpected end")

directive_line(st, s, data, desc) ==
    on_tag(st, s, data, split_at_ws_end(s)[1], parse_directive(s, desc))

\* a bug: the whitespace after the marker goes with the marker
content_line_trimming(st, s, data, desc) ==
    LET prefix == CfgState_prefix(st)
        stripped == strip_prefix(s, prefix)
        trimmed == stripped.rest
        enabled == ~starts_with(trimmed, desc.comment)
        should_be == data.reset \/ CfgState_enabled(st)
    IN  IF trim(s) = <<>> THEN Emit("blank", st, s)
        ELSE IF ~stripped.some THEN Panic(st, "wrong prefix")
        ELSE IF ~enabled /\ should_be
        THEN Emit("uncomment", st,
                  prefix \o trim_start(SubSeq(trimmed, Len(desc.comment) + 1,
                                              Len(trimmed))))
        ELSE IF enabled /\ ~should_be
        THEN Emit("comment", st, prefix \o desc.comment \o trimmed)
        ELSE Emit("keep", st, s)

\* a bug: a commented line is never uncommented unless reset is set
content_line_sticky(st, s, data, desc) ==
    LET prefix == CfgState_prefix(st)
        stripped == strip_prefix(s, prefix)
        trimmed == stripped.rest
        enabled == ~starts_with(trimmed, desc.comment)
        should_be == data.reset \/ CfgState_enabled(st)
    IN  IF trim(s) = <<>> THEN Emit("blank", st, s)
        ELSE IF ~stripped.some THEN Panic(st, "wrong prefix")
        ELSE IF ~enabled /\ data.reset
        THEN Emit("uncomment", st,
                  prefix \o SubSeq(trimmed, Len(desc.comment) + 1, Len(trimmed)))
        ELSE IF enabled /\ ~should_be
        THEN Emit("comment", st, prefix \o desc.comment \o trimmed)
        ELSE Emit("keep", st, s)

\* a bug: a blank line is not returned early
content_line_unguarded(st, s, data, desc) ==
    LET prefix == CfgState_prefix(st)
        stripped == strip_prefix(s, prefix)
        trimmed == stripped.rest
        enabled == ~starts_with(trimmed, desc.comment)
        should_be == data.reset \/ CfgState_enabled(st)
    IN  IF ~stripped.some THEN Panic(st, "wrong prefix")
        ELSE IF ~enabled /\ should_be
        THEN Emit("uncomment", st,
                  prefix \o SubSeq(trimmed, Len(desc.comment) + 1, Len(trimmed)))
        ELSE IF enabled /\ ~should_be
        THEN Emit("comment", st, prefix \o desc.comment \o trimmed)
        ELSE Emit("keep", st, s)

content_line(st, s, data, desc) ==
    LET prefix == CfgState_prefix(st)
        stripped == strip_prefix(s, prefix)
        trimmed == stripped.rest
        enabled == ~starts_with(trimmed, desc.comment)
        should_be == data.reset \/ CfgState_enabled(st)
    IN  IF trim(s) = <<>> THEN Emit("blank", st, s)
        ELSE IF ~stripped.some THEN Panic(st, "wrong prefix")
        ELSE IF ~enabled /\ should_be
        THEN Emit("uncomment", st,
                  prefix \o SubSeq(trimmed, Len(desc.comment) + 1, Len(trimmed)))
        ELSE IF enabled /\ ~should_be
        THEN Emit("comment", st, prefix \o desc.comment \o trimmed)
        ELSE Emit("keep", st, s)

closure(st, s, data, desc) ==
    IF is_directive(s, desc)
    THEN directive_line(st, s, data, desc)
    ELSE content_line(st, s, data, desc)

\* process(read, config, desc) run to its end: the lines emitted, the stack left
\* and the panic that cut it short, if any
RECURSIVE process_from(_, _, _, _, _)
process_from(read, st, acc, data, desc) ==
    IF read = <<>> THEN [lines |-> acc, state |-> st, err |-> "none"]
    ELSE LET r == closure(st, Head(read), data, desc)
         IN  IF r.branch = "panic"
             THEN [lines |-> acc, state |-> st, err |-> r.err]
             ELSE process_from(Tail(read), r.state, Append(acc, r.line), data, desc)

process(read, data, desc) == process_from(read, CfgState_default, <<>>, data, desc)

----------------------------------------------------------------------------
(* The inputs of the model                                                 *)

\* the descriptor of the "//" languages: directives "//[ ... ]", comment "//# "
Desc ==
    [cfg_prefix |-> <<"/", "/", "[">>,
     cfg_prefix_comment_len |-> 2,
     cfg_suffix |-> <<"]">>,
     comment |-> <<"/", "/", "#", " ">>]

FeatureA == <<"a">>

TextFeatureA == <<"f", "e", "a", "t", "u", "r", "e", "=", "\"", "a", "\"">>

\* "//[cfg(" body ")]"
Directive(body) == <<"/", "/", "[", "c", "f", "g", "(">> \o body \o <<")", "]">>

Indent == <<" ">>
Commented(s) == Desc.comment \o s

LineStartA == Indent \o Directive(TextFeatureA)
LineStartNotA == Directive(<<"n", "o", "t", "(">> \o TextFeatureA \o <<")">>)
LineEnd == Directive(<<"e", "n", "d">>)
LineBadDirective == <<"/", "/", "[", "x", "]">>
LineX == <<"x">>
LineIndentX == Indent \o LineX
LineCommented2 == Indent \o Commented(Commented(LineX))
LineBlank == <<>>

\* the lines a file of the model is made of
Lines ==
    { LineStartA, LineStartNotA, LineEnd, LineBadDirective,
      LineX, LineIndentX, LineCommented2, LineBlank }

\* the longest file of the model, in lines
MaxLines == 4

FilesUpTo(n) == UNION {[1..k -> Lines] : k \in 0..n}

Files == FilesUpTo(MaxLines)

\* Apply { features } and the build script: reset = false; Reset and Git: reset = true
ApplyConfigs == {[features |-> f, reset |-> FALSE] : f \in SUBSET {FeatureA}}
ResetConfig == [features |-> {}, reset |-> TRUE]
Configs == ApplyConfigs \cup {ResetConfig}

----------------------------------------------------------------------------
(* walkdir_parallel on one file: the for loop over process(), one line a   *)
(* step, each written to the temporary file; then persist.  A panic in the *)
(* closure unwinds the worker: the temporary file is dropped and persist   *)
(* is never reached.                                                       *)

\* no walk over several files is under way
NoWalk == tree = <<>> /\ disk = <<>> /\ visit = <<>> /\ idle = 0

\* Group::matches is not under test
NoEval == group = <<>> /\ matched = <<>>

\* cfg::cfg is not under test
NoParse == text = <<>> /\ result = [tag |-> "none"]

\* cfgcomment init is not the command
NoInit == git = "none" /\ filter = {} /\ attributes = <<>> /\ exit = "none"

\* no single file is followed
NoFile ==
    /\ file = <<>>
    /\ pc = "none"
    /\ idx = 0
    /\ state = <<>>
    /\ out = <<>>
    /\ err = "none"
    /\ orig = <<>>
    /\ before = <<>>
    /\ runs = <<>>

Init ==
    /\ file \in Files
    /\ config \in Configs
    /\ pc = "lines"
    /\ idx = 0
    /\ state = CfgState_default
    /\ out = <<>>
    /\ err = "none"
    /\ orig = file
    /\ before = file
    /\ runs = <<>>
    /\ NoWalk /\ NoEval /\ NoParse /\ NoInit

\* one iteration of the loop that takes branch b: the line r.line is written
Written(r, b) ==
    /\ r.branch = b
    /\ idx' = idx + 1
    /\ state' = r.state
    /\ out' = Append(out, r.line)
    /\ UNCHANGED <<file, config, pc, err, orig, before, runs>>
    /\ UNCHANGED <<walkVars, evalVars, parseVars, initVars>>

\* the loop has a next line to hand to the closure
Reading == pc = "lines" /\ idx < Len(file)

\* the next line goes to the directive branch of the closure
ReadingDirective == Reading /\ is_directive(file[idx + 1], Desc)

\* the next line goes to the content branch of the closure
ReadingContent == Reading /\ ~is_directive(file[idx + 1], Desc)

\* the directive branch on the next line
OnDirective == directive_line(state, file[idx + 1], config, Desc)

\* the content branch on the next line
OnContent == content_line(state, file[idx + 1], config, Desc)

DirectiveStart ==
    /\ ReadingDirective
    /\ Written(OnDirective, "start")

DirectiveEnd ==
    /\ ReadingDirective
    /\ Written(OnDirective, "end")

Blank ==
    /\ ReadingContent
    /\ Written(OnContent, "blank")

Uncomment ==
    /\ ReadingContent
    /\ Written(OnContent, "uncomment")

Comment ==
    /\ ReadingContent
    /\ Written(OnContent, "comment")

Keep ==
    /\ ReadingContent
    /\ Written(OnContent, "keep")

\* a bug: the lines written so far replace the file when the worker unwinds
Panicked_persist(r, msg) ==
    /\ r.branch = "panic"
    /\ r.err = msg
    /\ pc' = "panicked"
    /\ err' = msg
    /\ file' = out
    /\ UNCHANGED <<config, idx, state, out, orig, before, runs>>
    /\ UNCHANGED <<walkVars, evalVars, parseVars, initVars>>

\* unwrap() or expect() fails in the closure: the worker unwinds
Panicked(r, msg) ==
    /\ r.branch = "panic"
    /\ r.err = msg
    /\ pc' = "panicked"
    /\ err' = msg
    /\ UNCHANGED <<file, config, idx, state, out, orig, before, runs>>
    /\ UNCHANGED <<walkVars, evalVars, parseVars, initVars>>

\* cfg::cfg(..).unwrap()
PanicParse ==
    /\ ReadingDirective
    /\ Panicked(OnDirective, "parse error")

\* state.pop().expect("unexpected end")
PanicEnd ==
    /\ ReadingDirective
    /\ Panicked(OnDirective, "unexpected end")

\* s.strip_prefix(&prefix).expect("wrong prefix")
PanicPrefix ==
    /\ ReadingContent
    /\ Panicked(OnContent, "wrong prefix")

\* out.into_inner().unwrap().persist(path): the temporary file replaces the file
Persist ==
    /\ pc = "lines"
    /\ idx = Len(file)
    /\ file' = out
    /\ pc' = "done"
    /\ runs' = Append(runs, config)
    /\ UNCHANGED <<config, idx, state, out, err, orig, before>>
    /\ UNCHANGED <<walkVars, evalVars, parseVars, initVars>>

Next ==
    \/ DirectiveStart
    \/ DirectiveEnd
    \/ Blank
    \/ Uncomment
    \/ Comment
    \/ Keep
    \/ PanicParse
    \/ PanicEnd
    \/ PanicPrefix
    \/ Persist

Spec == Init /\ [][Next]_vars

----------------------------------------------------------------------------
(* The tool run again on the file a run persisted: cfgcomment apply or     *)
(* reset invoked once more, or the build script on the next build.  A run  *)
(* after a panic finds the file as it was, which Init covers.              *)

\* the longest file of the runs-again specification, in lines
MaxRerunLines == 3

\* the number of runs on one file
MaxRuns == 2

InitRerun ==
    /\ file \in FilesUpTo(MaxRerunLines)
    /\ config \in Configs
    /\ pc = "lines"
    /\ idx = 0
    /\ state = CfgState_default
    /\ out = <<>>
    /\ err = "none"
    /\ orig = file
    /\ before = file
    /\ runs = <<>>
    /\ NoWalk /\ NoEval /\ NoParse /\ NoInit

\* walkdir_parallel opens the file again, with a fresh CfgState and temporary file
Rerun ==
    /\ pc = "done"
    /\ Len(runs) < MaxRuns
    /\ config' \in Configs
    /\ pc' = "lines"
    /\ idx' = 0
    /\ state' = CfgState_default
    /\ out' = <<>>
    /\ before' = file
    /\ UNCHANGED <<file, err, orig, runs>>
    /\ UNCHANGED <<walkVars, evalVars, parseVars, initVars>>

NextRerun ==
    \/ DirectiveStart
    \/ DirectiveEnd
    \/ Blank
    \/ Uncomment
    \/ Comment
    \/ Keep
    \/ PanicParse
    \/ PanicEnd
    \/ PanicPrefix
    \/ Persist
    \/ Rerun

SpecRerun == InitRerun /\ [][NextRerun]_vars

----------------------------------------------------------------------------
(* walkdir_parallel over several entries: the walker's threads each take   *)
(* an entry and call the closure on it.  An entry that is not a file of a  *)
(* known extension is skipped; any other is processed line by line into    *)
(* its own temporary file and persisted.  A panic in the closure unwinds   *)
(* the thread that called it: that thread takes no further entry.          *)

\* an entry the closure processes, and one whose extension lang_config lacks
Known(lines) == [known |-> TRUE, lines |-> lines]
Unknown(lines) == [known |-> FALSE, lines |-> lines]

\* an End directive without a Start: "unexpected end" at its second line
FileBadEnd == <<LineX, LineEnd>>

\* a Start directive that is never closed
FileOpenScope == <<LineStartNotA, LineX>>

\* a file without directives
FilePlain == <<LineX>>

\* the entries a walk of the model meets
Entries ==
    { Known(FileBadEnd), Known(FileOpenScope), Known(FilePlain), Unknown(FileBadEnd) }

\* the number of entries under the paths
MaxEntries == 3

\* the most threads the walker starts: it starts as many as the machine has
\* processors
MaxWorkers == 2

Paths == 1..MaxEntries

\* an entry the walker has not yet handed to a thread
Queued ==
    [pc |-> "queued", idx |-> 0, state |-> <<>>, out |-> <<>>, err |-> "none"]

InitWalk ==
    /\ config \in Configs
    /\ tree \in [Paths -> Entries]
    /\ disk = tree
    /\ visit = [p \in Paths |-> Queued]
    /\ idle \in 1..MaxWorkers
    /\ NoFile /\ NoEval /\ NoParse /\ NoInit

\* a thread that is free is handed the entry p
Handed(p) == idle > 0 /\ visit[p].pc = "queued"

\* a bug: one CfgState for all calls, the stack another thread is working on
SharedState ==
    IF \E q \in Paths : visit[q].pc = "lines"
    THEN visit[CHOOSE q \in Paths : visit[q].pc = "lines"].state
    ELSE CfgState_default

\* let state = CfgState::default() in the call of process() for one file
FreshState == CfgState_default

\* no extension, or none of lang_config: return WalkState::Continue
WalkSkip(p) ==
    /\ Handed(p)
    /\ ~disk[p].known
    /\ visit' = [visit EXCEPT ![p].pc = "skipped"]
    /\ UNCHANGED <<config, tree, disk, idle, fileVars, evalVars, parseVars, initVars>>

\* File::open, NamedTempFile::new_in, process(..): the for loop begins
WalkOpen(p) ==
    /\ Handed(p)
    /\ disk[p].known
    /\ visit' = [visit EXCEPT ![p].pc = "lines", ![p].state = FreshState]
    /\ idle' = idle - 1
    /\ UNCHANGED <<config, tree, disk, fileVars, evalVars, parseVars, initVars>>

\* the for loop over the entry p has a next line
WalkReading(p) ==
    /\ visit[p].pc = "lines"
    /\ visit[p].idx < Len(disk[p].lines)

\* the closure on the next line of the entry p
WalkOnLine(p) ==
    closure(visit[p].state, disk[p].lines[visit[p].idx + 1], config, Desc)

\* one iteration of the for loop: the line r.line is written
WalkWritten(p, r) ==
    /\ r.branch # "panic"
    /\ visit' = [visit EXCEPT ![p].idx = @ + 1, ![p].state = r.state,
                              ![p].out = Append(@, r.line)]
    /\ UNCHANGED <<config, tree, disk, idle, fileVars, evalVars, parseVars, initVars>>

WalkLine(p) ==
    /\ WalkReading(p)
    /\ WalkWritten(p, WalkOnLine(p))

\* unwrap() or expect() fails in the closure: the thread unwinds and is lost
WalkUnwound(p, r) ==
    /\ r.branch = "panic"
    /\ visit' = [visit EXCEPT ![p].pc = "panicked", ![p].err = r.err]
    /\ UNCHANGED <<config, tree, disk, idle, fileVars, evalVars, parseVars, initVars>>

WalkPanic(p) ==
    /\ WalkReading(p)
    /\ WalkUnwound(p, WalkOnLine(p))

\* persist(path.path()), then WalkState::Continue: the thread is free again
WalkPersist(p) ==
    /\ visit[p].pc = "lines"
    /\ visit[p].idx = Len(disk[p].lines)
    /\ disk' = [disk EXCEPT ![p].lines = visit[p].out]
    /\ visit' = [visit EXCEPT ![p].pc = "done"]
    /\ idle' = idle + 1
    /\ UNCHANGED <<config, tree, fileVars, evalVars, parseVars, initVars>>

NextWalk ==
    \/ \E p \in Paths : WalkSkip(p)
    \/ \E p \in Paths : WalkOpen(p)
    \/ \E p \in Paths : WalkLine(p)
    \/ \E p \in Paths : WalkPanic(p)
    \/ \E p \in Paths : WalkPersist(p)

SpecWalk == InitWalk /\ [][NextWalk]_vars

----------------------------------------------------------------------------
(* Group::matches on its own: a tree and a feature set, then the call.     *)

\* the feature names of the trees and the feature sets
FeatureNames == {"a", "b"}

\* the longest list of an all() or any()
MaxList == 2

ListsOf(S) == UNION {[1..k -> S] : k \in 0..MaxList}

\* the leaves, and the trees with leaves below them
Leaves == {Option(Feature(n)) : n \in FeatureNames}

Flat ==
    Leaves \cup {Not(g) : g \in Leaves}
           \cup {All(l) : l \in ListsOf(Leaves)}
           \cup {Any(l) : l \in ListsOf(Leaves)}

\* the trees that stand in the list of another: a leaf, its negation, and all()
\* and any() of no tree or of one leaf
Inner ==
    {g \in Flat : g.tag \in {"All", "Any"} => Len(g.list) <= 1}

\* the trees evaluated
Groups ==
    Flat \cup {Not(g) : g \in Flat}
         \cup {All(l) : l \in ListsOf(Inner)}
         \cup {Any(l) : l \in ListsOf(Inner)}

EvalConfigs == {[features |-> f, reset |-> FALSE] : f \in SUBSET FeatureNames}

InitEval ==
    /\ config \in EvalConfigs
    /\ group \in Groups
    /\ matched = <<>>
    /\ NoFile /\ NoWalk /\ NoParse /\ NoInit

\* c.matches(&config)
Evaluate ==
    /\ matched = <<>>
    /\ matched' = <<Group_matches(group, config)>>
    /\ UNCHANGED <<config, group, fileVars, walkVars, parseVars, initVars>>

NextEval == Evaluate

SpecEval == InitEval /\ [][NextEval]_vars

----------------------------------------------------------------------------
(* walkdir_parallel on one file whose directive lines carry whitespace     *)
(* around them (after the suffix, and a vertical tab before the prefix)    *)
(* and whose blank lines are empty or hold a tab.                          *)

\* "//[cfg(end)] "
LineEndTrailing == LineEnd \o <<" ">>

\* a vertical tab, then "//[cfg(end)]"
LineEndVT == <<VT>> \o LineEnd

\* a line that holds a tab and nothing else
LineBlankTab == <<"\t">>

DirectiveLines ==
    { LineStartA, LineEnd, LineBadDirective, LineEndTrailing, LineEndVT,
      LineX, LineIndentX, LineCommented2, LineBlank, LineBlankTab }

\* the longest file of this specification, in lines
MaxDirectiveLines == 3

InitDirective ==
    /\ file \in UNION {[1..k -> DirectiveLines] : k \in 0..MaxDirectiveLines}
    /\ config \in Configs
    /\ pc = "lines"
    /\ idx = 0
    /\ state = CfgState_default
    /\ out = <<>>
    /\ err = "none"
    /\ orig = file
    /\ before = file
    /\ runs = <<>>
    /\ NoWalk /\ NoEval /\ NoParse /\ NoInit

SpecDirective == InitDirective /\ [][Next]_vars

----------------------------------------------------------------------------
(* cfgcomment init: the test of ".git", two calls of git config, then the  *)
(* lines of .gitattributes that are missing are appended.                  *)

\* the keys of LangDesc::default_list(), the extensions the tool knows
Extensions == {"rs", "js"}

\* format!("*.{} filter=cfgcomment", k)
NeededLine(k) == <<"*.", k, " filter=cfgcomment">>

\* a line of .gitattributes that is none of the tool's
OtherLine == <<"* text=auto">>

AttributeLines == {NeededLine(k) : k \in Extensions} \cup {OtherLine}

\* the longest .gitattributes init finds, in lines
MaxAttributes == 2

\* what ".git" is in the current directory, and for "none" whether the current
\* directory is inside a repository
GitStates == {"dir", "file", "none inside", "none outside"}

InitCmd ==
    /\ git \in GitStates
    /\ filter = {}
    /\ attributes \in UNION {[1..k -> AttributeLines] : k \in 0..MaxAttributes}
    /\ exit = "check"
    /\ config = ResetConfig   \* init builds no Data; the other commands do
    /\ NoFile /\ NoWalk /\ NoEval /\ NoParse

\* std::fs::metadata(".git").map(|f| f.is_dir()).unwrap_or(false)
GitIsDir == git = "dir"

\* bail!("cfgcomment init should be called in root of git repo")
CmdBail ==
    /\ exit = "check"
    /\ GitIsDir
    /\ exit' = "bailed"
    /\ UNCHANGED <<config, git, filter, attributes, fileVars, walkVars, evalVars, parseVars>>

\* the test of ".git" lets init go on
CmdPass ==
    /\ exit = "check"
    /\ ~GitIsDir
    /\ exit' = "required"
    /\ UNCHANGED <<config, git, filter, attributes, fileVars, walkVars, evalVars, parseVars>>

\* what git config leaves of the keys: outside a repository it fails, and its
\* exit status is not looked at
Configured(key) == IF git = "none outside" THEN filter ELSE filter \cup {key}

\* git config --bool filter.cfgcomment.required true
CmdRequired ==
    /\ exit = "required"
    /\ filter' = Configured("filter.cfgcomment.required")
    /\ exit' = "process"
    /\ UNCHANGED <<config, git, attributes, fileVars, walkVars, evalVars, parseVars>>

\* git config filter.cfgcomment.process "cfgcomment git"
CmdProcess ==
    /\ exit = "process"
    /\ filter' = Configured("filter.cfgcomment.process")
    /\ exit' = "attributes"
    /\ UNCHANGED <<config, git, attributes, fileVars, walkVars, evalVars, parseVars>>

\* the lines of .gitattributes as a set
Present == {attributes[k] : k \in 1..Len(attributes)}

\* the needed lines that are not in .gitattributes, in the orders a HashMap's
\* keys can come in
Missing ==
    {l \in UNION {[1..k -> AttributeLines] : k \in 0..Cardinality(Extensions)} :
        /\ \A k \in 1..Len(l) : \E x \in Extensions : l[k] = NeededLine(x)
        /\ \A j, k \in 1..Len(l) : j # k => l[j] # l[k]
        /\ \A x \in Extensions :
               NeededLine(x) \notin Present <=> \E k \in 1..Len(l) : l[k] = NeededLine(x)}

\* for line in needed_lines: writeln! unless lines.contains(&line); then Ok(())
CmdAppend ==
    /\ exit = "attributes"
    /\ \E l \in Missing : attributes' = attributes \o l
    /\ exit' = "ok"
    /\ UNCHANGED <<config, git, filter, fileVars, walkVars, evalVars, parseVars>>

NextCmd ==
    \/ CmdBail
    \/ CmdPass
    \/ CmdRequired
    \/ CmdProcess
    \/ CmdAppend

SpecCmd == InitCmd /\ [][NextCmd]_vars

----------------------------------------------------------------------------
(* cfg::cfg on its own: an input put together from tokens, then the call.  *)

TokAny == <<"a", "n", "y", "(">>
TokAll == <<"a", "l", "l", "(">>
TokNot == <<"n", "o", "t", "(">>
TokClose == <<")">>
TokComma == <<",">>
TokEnd == <<"e", "n", "d">>
TokSpace == <<" ">>

Tokens ==
    {TokAny, TokAll, TokNot, TokClose, TokComma, TokEnd, TokSpace, TextFeatureA}

\* the most tokens between "[cfg(" and ")]"
MaxTokens == 4

RECURSIVE Concat(_)
Concat(toks) == IF toks = <<>> THEN <<>> ELSE Head(toks) \o Concat(Tail(toks))

\* the input of the parser: "[cfg(" tokens ")]"
InputOf(toks) == <<"[", "c", "f", "g", "(">> \o Concat(toks) \o <<")", "]">>

InitParse ==
    /\ text \in UNION {[1..k -> Tokens] : k \in 0..MaxTokens}
    /\ result = [tag |-> "none"]
    /\ config = ResetConfig   \* the parser reads no Data
    /\ NoFile /\ NoWalk /\ NoEval /\ NoInit

\* cfg::cfg(input)
Parse ==
    /\ result.tag = "none"
    /\ result' = cfg(InputOf(text))
    /\ UNCHANGED <<config, text, fileVars, walkVars, evalVars, initVars>>

NextParse == Parse

SpecParse == InitParse /\ [][NextParse]_vars

----------------------------------------------------------------------------
(* Helpers of the properties, written without the operators of the model   *)
(* they are checked against                                                *)

Marker == <<"/", "/", "#", " ">>

\* s begins with p
Begins(s, p) == Len(s) >= Len(p) /\ \A k \in 1..Len(p) : s[k] = p[k]

\* s without its first n characters
Drop(s, n) == [k \in 1..(Len(s) - n) |-> s[k + n]]

\* a line that is not only whitespace
NonBlank(s) == \E k \in 1..Len(s) : s[k] \notin {" ", "\t", VT}

\* a non-blank line that is not a directive line
ContentLine(s) == NonBlank(s) /\ ~is_directive(s, Desc)

\* the scope stack a run over input `lines` with data has before its line k
StackBefore(lines, k, data) == process(SubSeq(lines, 1, k - 1), data, Desc).state

\* the prefix the top frame of stack st requires
Required(st) == IF Len(st) = 0 THEN <<>> ELSE st[Len(st)][2]

\* line s carries the marker after the prefix stack st requires
Carries(s, st) == Begins(s, Required(st) \o Marker)

\* a run is the second of two, with the config of the first
SameConfigAgain ==
    \/ Len(runs) = 1 /\ pc # "done" /\ config = runs[1]
    \/ Len(runs) = 2 /\ runs[2] = runs[1]

\* C1: a pass run again with the same config on the output of the first
\* completes and returns that output unchanged, line for line.
C1_Idempotent ==
    SameConfigAgain =>
        /\ pc # "panicked"
        /\ out = SubSeq(before, 1, Len(out))
        /\ pc = "done" => file = before

\* C2: a reset pass after a pass with c1 gives the same lines as a reset pass
\* after a pass with any other non-reset config c2 on the same input.
C2_ResetNormalForm ==
    (pc = "done" /\ Len(runs) = 2 /\ ~runs[1].reset /\ runs[2].reset) =>
        \A c2 \in ApplyConfigs :
            process(orig, c2, Desc).err = "none" =>
                /\ process(process(orig, c2, Desc).lines, ResetConfig, Desc).err = "none"
                /\ process(process(orig, c2, Desc).lines, ResetConfig, Desc).lines = file

\* C3: after a completed pass with reset = false a non-blank content line of the
\* output begins with the marker, after its required prefix, exactly when some
\* frame of the stack at that line is disabled.
C3_CommentStateMatchesScope ==
    (pc = "done" /\ ~config.reset) =>
        \A k \in 1..Len(file) :
            ContentLine(file[k]) =>
                (Carries(file[k], StackBefore(before, k, config))
                    <=> \E f \in 1..Len(StackBefore(before, k, config)) :
                            ~StackBefore(before, k, config)[f][1])

\* C4: after a completed pass with reset = true no non-blank content line of the
\* output begins with the marker after its required prefix, and every directive
\* line of the output is its input line.
C4_ResetUncommentsAll ==
    (pc = "done" /\ config.reset) =>
        \A k \in 1..Len(file) :
            /\ ContentLine(file[k]) => ~Carries(file[k], StackBefore(before, k, config))
            /\ is_directive(file[k], Desc) => file[k] = before[k]

\* the loop hands the closure a non-blank content line and writes its result
ContentStep ==
    /\ pc = "lines"
    /\ idx < Len(file)
    /\ idx' = idx + 1
    /\ ContentLine(file[idx + 1])

\* the line the rewrite rule asks for: P the required prefix, B the body
Rewritten(s, st, data) ==
    LET P == Required(st)
        B == Drop(s, Len(P))
        active == data.reset \/ \A f \in 1..Len(st) : st[f][1]
    IN  IF ~Begins(B, Marker) /\ ~active THEN P \o Marker \o B
        ELSE IF Begins(B, Marker) /\ active THEN P \o Drop(B, Len(Marker))
        ELSE s

\* C5: a non-blank content line should be active iff reset is set or every frame
\* of the stack is enabled; an active body that should be inactive gets the marker
\* after the prefix, a marked body that should be active loses one marker length,
\* any other line is emitted as it is.
C5_RewriteRule ==
    [][ContentStep => out' = Append(out, Rewritten(file[idx + 1], state, config))]_vars

\* an active line in an enabled scope nested in a disabled one was commented
C5_Witness ==
    /\ idx >= 3
    /\ Len(state) = 2
    /\ ~state[1][1]
    /\ state[2][1]
    /\ ~config.reset
    /\ ContentLine(file[idx])
    /\ ~Carries(file[idx], state)
    /\ out[idx] = Required(state) \o Marker \o Drop(file[idx], Len(Required(state)))

\* the leading run of spaces and tabs of a line
LeadingSpace(s) ==
    LET n == CHOOSE m \in 0..Len(s) :
                 /\ \A k \in 1..m : s[k] \in {" ", "\t"}
                 /\ m = Len(s) \/ s[m + 1] \notin {" ", "\t"}
    IN  [k \in 1..n |-> s[k]]

\* b is a with the marker put in at one place
MarkerAdded(a, b) ==
    \E n \in 0..Len(a) : b = [k \in 1..n |-> a[k]] \o Marker \o Drop(a, n)

\* two lines that differ at most by one marker
SameUpToMarker(a, b) == a = b \/ MarkerAdded(a, b) \/ MarkerAdded(b, a)

\* what a directive line does: its tag pushes one frame or pops the top one
StackEffect(s) ==
    /\ parse_directive(s, Desc).tag \in {"Start", "End"}
    /\ parse_directive(s, Desc).tag = "Start" =>
           \E v \in BOOLEAN : state' = Append(state, <<v, LeadingSpace(s)>>)
    /\ parse_directive(s, Desc).tag = "End" =>
           state # <<>> /\ state' = [k \in 1..(Len(state) - 1) |-> state[k]]

\* C6: a pass emits one output line per input line, in order; a directive line
\* is emitted as it is and only pushes or pops the stack; the file persisted has
\* as many lines as the input.
C6_LineForLine ==
    [][/\ idx' # idx =>
            /\ idx' = idx + 1
            /\ Len(out') = idx'
            /\ out' = Append(out, out'[idx'])
            /\ IF is_directive(file[idx'], Desc)
               THEN out'[idx'] = file[idx'] /\ StackEffect(file[idx'])
               ELSE state' = state /\ SameUpToMarker(file[idx'], out'[idx'])
       /\ file' # file => file' = out /\ Len(out) = Len(file)
      ]_vars

\* a completed pass over Start, content and End lines that rewrote a content line
C6_Witness ==
    /\ pc = "done"
    /\ Len(file) = Len(before)
    /\ \E k \in 1..Len(before) : parse_directive(before[k], Desc).tag = "Start"
    /\ \E k \in 1..Len(before) : parse_directive(before[k], Desc).tag = "End"
    /\ \E k \in 1..Len(before) : file[k] # before[k]

\* the tag of line s: "Start", "End", "Err" for a directive line, "none" otherwise
TagOf(s) == IF is_directive(s, Desc) THEN parse_directive(s, Desc).tag ELSE "none"

\* the tags of the lines of a file, line by line
RECURSIVE Tags(_)
Tags(lines) ==
    IF lines = <<>> THEN <<>> ELSE <<TagOf(Head(lines))>> \o Tags(Tail(lines))

\* the number of tags equal to tag among the first n
CountTag(tags, n, tag) == Cardinality({k \in 1..n : tags[k] = tag})

\* a pass over lines with these tags has completed balanced
Balanced(tags) ==
    pc = "done" =>
        /\ state = <<>>
        /\ CountTag(tags, Len(tags), "Start") = CountTag(tags, Len(tags), "End")

\* C7 as stated: a pass that completes has met as many Start as End directives
\* and ends with an empty stack (an input with a Start still open does not
\* complete).
C7_BalancedAtCompletion == Balanced(Tags(before))

\* the depth of the stack, the fatal End and completion, where tags are the tags
\* of the lines processed so far
DepthLaw(tags) ==
    /\ Len(tags) = idx
    /\ Len(state) = CountTag(tags, idx, "Start") - CountTag(tags, idx, "End")
    /\ err = "unexpected end" =>
           /\ idx < Len(before)
           /\ TagOf(before[idx + 1]) = "End"
           /\ CountTag(tags, idx, "Start") = CountTag(tags, idx, "End")
    /\ pc = "done" =>
           /\ err = "none"
           /\ idx = Len(before)
           /\ \A k \in 1..idx :
                  CountTag(tags, k, "Start") >= CountTag(tags, k, "End")

\* C7 as amended: the depth of the stack is the number of Start minus the number
\* of End directives processed; "unexpected end" is raised at an End directive
\* met with as many End as Start before it, so no completed pass has met more End
\* than Start at any point; a pass with Start directives still open at the end of
\* input completes without an error.
C7_DepthIsStartsMinusEnds == DepthLaw(Tags(SubSeq(before, 1, idx)))

\* a pass over lines with these tags completed with a Start directive still open
OpenAtCompletion(tags) ==
    /\ pc = "done"
    /\ Len(state) > 0
    /\ CountTag(tags, Len(tags), "Start") > CountTag(tags, Len(tags), "End")
    /\ CountTag(tags, Len(tags), "End") > 0

\* a pass completed, and was persisted, with a Start directive still open
C7_Witness == OpenAtCompletion(Tags(before))

\* C8: an End directive met with an empty stack stops the pass with the fatal
\* error at that line: nothing more is written and the stack stays empty; met
\* with a non-empty stack it removes the top frame and leaves the others; a pass
\* that has panicked takes no further step.
C8_EndDirective ==
    [][/\ (pc = "lines" /\ idx < Len(file) /\ TagOf(file[idx + 1]) = "End") =>
            IF state = <<>>
            THEN /\ pc' = "panicked"
                 /\ err' = "unexpected end"
                 /\ UNCHANGED <<state, out, idx, file>>
            ELSE /\ pc' = "lines"
                 /\ err' = "none"
                 /\ Len(state') = Len(state) - 1
                 /\ \A k \in 1..Len(state') : state'[k] = state[k]
                 /\ out' = Append(out, file[idx + 1])
       /\ pc # "panicked"
      ]_vars

\* an End directive popped the only frame and the next End directive was fatal
C8_Witness ==
    /\ pc = "panicked"
    /\ err = "unexpected end"
    /\ state = <<>>
    /\ idx >= 2
    /\ TagOf(file[idx]) = "End"
    /\ TagOf(file[idx + 1]) = "End"
    /\ Len(out) = idx

\* the indexes of the Start lines still open after the first n of lines
RECURSIVE OpenStarts(_, _)
OpenStarts(lines, n) ==
    IF n = 0 THEN <<>>
    ELSE CASE TagOf(lines[n]) = "Start" -> Append(OpenStarts(lines, n - 1), n)
           [] TagOf(lines[n]) = "End" /\ OpenStarts(lines, n - 1) # <<>> ->
                  [k \in 1..(Len(OpenStarts(lines, n - 1)) - 1) |->
                      OpenStarts(lines, n - 1)[k]]
           [] OTHER -> OpenStarts(lines, n - 1)

\* the leading whitespace of the innermost open Start line, empty when none is open
InnermostStartSpace(lines, n) ==
    IF OpenStarts(lines, n) = <<>> THEN <<>>
    ELSE LeadingSpace(lines[OpenStarts(lines, n)[Len(OpenStarts(lines, n))]])

\* C9: a non-blank content line raises the fatal prefix error exactly when it
\* does not begin with the leading whitespace of the innermost open Start
\* directive's line (nothing when no scope is open), whatever reset is; after an
\* End the enclosing Start's whitespace is required again.
C9_PrefixMismatch ==
    [][(pc = "lines" /\ idx < Len(file) /\ ContentLine(file[idx + 1])) =>
            /\ pc' = "panicked" => err' = "wrong prefix"
            /\ pc' = "panicked" <=>
                   ~Begins(file[idx + 1], InnermostStartSpace(file, idx))
      ]_vars

\* in reset mode, after the End of an inner scope, a line without the outer
\* Start's whitespace was refused
C9_Witness ==
    /\ pc = "panicked"
    /\ err = "wrong prefix"
    /\ config.reset
    /\ idx >= 3
    /\ TagOf(file[idx]) = "End"
    /\ Len(state) = 1
    /\ Begins(file[idx + 1], LeadingSpace(file[idx - 1]))
    /\ ~Begins(file[idx + 1], InnermostStartSpace(file, idx))

\* the run r completed and emitted these lines
Completed(r, lines) == r.err = "none" /\ r.lines = lines

\* C10: the file at the path is replaced only once every line has been processed
\* and written to the temporary file: until then, and after a fatal error at any
\* line, it holds what it held when the run opened it; once replaced it holds the
\* output of the whole pass.
C10_StageThenCommit ==
    /\ pc \in {"lines", "panicked"} => file = before
    /\ pc = "done" =>
           /\ Len(file) = Len(before)
           /\ Completed(process(before, config, Desc), file)

\* a pass failed after rewritten lines went to the temporary file; the file at
\* the path is as it was
C10_Witness ==
    /\ pc = "panicked"
    /\ file = orig
    /\ \E k \in 1..Len(out) : out[k] # file[k]

\* the pass on the entry p on its own
Alone(p) == process(tree[p].lines, config, Desc)

\* the walk has come to rest: no thread is in the closure and none can take an entry
WalkAtRest ==
    /\ \A p \in Paths : visit[p].pc # "lines"
    /\ idle = 0 \/ \A p \in Paths : visit[p].pc # "queued"

\* C11: when the walk has come to rest, every entry of a known extension whose
\* pass on its own completes has been processed and persisted, whatever fatal
\* errors the other entries of the run ended in.
C11_FailureIsolated ==
    WalkAtRest =>
        \A p \in Paths :
            (tree[p].known /\ Alone(p).err = "none") =>
                visit[p].pc = "done" /\ disk[p].lines = Alone(p).lines

\* the call v is where the pass r over the lines it has read is
InStep(v, r) == r.err = "none" /\ r.state = v.state /\ r.lines = v.out

\* the call v stopped where the pass r over the whole entry stops
Stopped(v, r) == r.err = v.err /\ r.state = v.state /\ r.lines = v.out

\* C12: every call of process() starts with an empty stack of its own: under
\* every interleaving of the threads' line steps each call is where a pass over
\* the lines it has read of its entry alone would be, it stops where that pass
\* stops, and an entry persisted holds the output of the pass on it alone,
\* whatever scopes the entries before it, or beside it, left open.
C12_StackIsolated ==
    \A p \in Paths :
        /\ visit[p].pc = "lines" =>
               InStep(visit[p],
                      process(SubSeq(tree[p].lines, 1, visit[p].idx), config, Desc))
        /\ visit[p].pc = "panicked" => Stopped(visit[p], Alone(p))
        /\ IF visit[p].pc = "done"
           THEN Completed(Alone(p), disk[p].lines)
           ELSE disk[p] = tree[p]

\* an entry with a scope left open was persisted, and of two calls in the loop
\* one holds a disabled frame while the other has written its line unmarked
C12_Witness ==
    /\ \E p \in Paths :
           visit[p].pc = "done" /\ tree[p].lines = FileOpenScope /\ disk[p] # tree[p]
    /\ \E p, q \in Paths :
           /\ visit[p].pc = "lines"
           /\ Len(visit[p].state) = 1
           /\ ~visit[p].state[1][1]
           /\ visit[q].pc = "lines"
           /\ tree[q].lines = FilePlain
           /\ visit[q].out = FilePlain

\* the list l with every tree negated
MapNot(l) == [k \in 1..Len(l) |-> Not(l[k])]

\* C13: for the tree evaluated and its feature set: Not(Not(g)) evaluates as g;
\* All of no tree is true and Any of no tree is false; Not(Any(l)) evaluates as
\* All of the negated trees of l and Not(All(l)) as Any of them; a Feature leaf is
\* true exactly when its name is in the feature set.
C13_EvaluatorLaws ==
    matched # <<>> =>
        /\ Group_matches(Not(Not(group)), config) = matched[1]
        /\ Group_matches(All(<<>>), config) = TRUE
        /\ Group_matches(Any(<<>>), config) = FALSE
        /\ group.tag = "Any" =>
               Group_matches(All(MapNot(group.list)), config) = ~matched[1]
        /\ group.tag = "All" =>
               Group_matches(Any(MapNot(group.list)), config) = ~matched[1]
        /\ (group.tag = "Not" /\ group.arg.tag = "Any") =>
               Group_matches(All(MapNot(group.arg.list)), config) = matched[1]
        /\ (group.tag = "Not" /\ group.arg.tag = "All") =>
               Group_matches(Any(MapNot(group.arg.list)), config) = matched[1]
        /\ group.tag = "Option" =>
               (matched[1] <=> group.pred.name \in config.features)

\* Not(Any(l)) of two leaves was evaluated, one of them in the feature set
C13_Witness ==
    /\ matched = <<FALSE>>
    /\ group.tag = "Not"
    /\ group.arg.tag = "Any"
    /\ Len(group.arg.list) = 2
    /\ \E k \in 1..2 : group.arg.list[k].pred.name \in config.features
    /\ \E k \in 1..2 : group.arg.list[k].pred.name \notin config.features

\* s without its leading whitespace, and without its trailing whitespace
NoLeadingSpace(s) ==
    LET n == CHOOSE m \in 0..Len(s) :
                 /\ \A k \in 1..m : s[k] \in {" ", "\t", VT}
                 /\ m = Len(s) \/ s[m + 1] \notin {" ", "\t", VT}
    IN  Drop(s, n)

NoTrailingSpace(s) ==
    LET n == CHOOSE m \in 0..Len(s) :
                 /\ \A k \in (m + 1)..Len(s) : s[k] \in {" ", "\t", VT}
                 /\ m = 0 \/ s[m] \notin {" ", "\t", VT}
    IN  [k \in 1..n |-> s[k]]

\* a line classified as a directive line
Classified(s) ==
    /\ Begins(NoLeadingSpace(s), <<"/", "/", "[">>)
    /\ NoTrailingSpace(s) # <<>>
    /\ NoTrailingSpace(s)[Len(NoTrailingSpace(s))] = "]"

\* the step of a directive line s whose text the grammar gives the tag t
DirectiveStep(s, t) ==
    \/ /\ t = "Start"
       /\ pc' = "lines"
       /\ idx' = idx + 1
       /\ out' = Append(out, s)
       /\ Len(state') = Len(state) + 1
       /\ SubSeq(state', 1, Len(state)) = state
    \/ /\ t = "End"
       /\ state # <<>>
       /\ pc' = "lines"
       /\ idx' = idx + 1
       /\ out' = Append(out, s)
       /\ state' = SubSeq(state, 1, Len(state) - 1)
    \/ /\ t = "End"
       /\ state = <<>>
       /\ pc' = "panicked"
       /\ err' = "unexpected end"
       /\ UNCHANGED <<idx, out, state>>
    \/ /\ t = "Err"
       /\ pc' = "panicked"
       /\ err' = "parse error"
       /\ UNCHANGED <<idx, out, state>>

\* C14: a line classified as a directive line is parsed as Start or End, pushes
\* or pops one frame and is written as it is, or its text does not match the
\* grammar and the pass stops with the parse error, the stack and the lines
\* written left as they were; it is never rewritten or passed over as a content
\* line; the file is not replaced and no step follows the stop.
C14_DirectiveParsedOrFatal ==
    [][/\ (pc = "lines" /\ idx < Len(file) /\ Classified(file[idx + 1])) =>
            /\ DirectiveStep(file[idx + 1], parse_directive(file[idx + 1], Desc).tag)
            /\ file' = file
       /\ pc # "panicked"
      ]_vars

\* inside an open scope a directive line with a space after its suffix stopped the
\* pass with the parse error, after a directive line was written as it is
C14_Witness ==
    /\ pc = "panicked"
    /\ err = "parse error"
    /\ idx >= 1
    /\ Len(state) = 1
    /\ out = SubSeq(file, 1, idx)
    /\ file[idx + 1] = <<"/", "/", "[", "c", "f", "g", "(", "e", "n", "d", ")", "]", " ">>
    /\ file = orig

\* C15: init called where ".git" is a directory does not fail with the error "should
\* be called in root of git repo": it returns with both filter keys set and every
\* needed line in .gitattributes; it fails with that error only where ".git" is
\* not a directory.
C15_InitInGitRoot ==
    /\ exit = "bailed" => git # "dir"
    /\ (git = "dir" /\ exit \in {"ok", "bailed"}) =>
           /\ exit = "ok"
           /\ filter = {"filter.cfgcomment.required", "filter.cfgcomment.process"}
           /\ \A x \in Extensions : \E k \in 1..Len(attributes) :
                  attributes[k] = <<"*.", x, " filter=cfgcomment">>

\* C16: a line of whitespace only is written as it is and the stack is left as
\* it is, whatever the stack holds: it gets no marker in a disabled scope and
\* raises no prefix error when it does not begin with the required prefix.
C16_BlankUnchanged ==
    [][(pc = "lines" /\ idx < Len(file) /\ ~NonBlank(file[idx + 1])) =>
            /\ pc' = "lines"
            /\ err' = "none"
            /\ idx' = idx + 1
            /\ out' = Append(out, file[idx + 1])
            /\ state' = state
            /\ file' = file
      ]_vars

\* in a disabled scope that requires a space a line holding a tab was written as
\* it is
C16_Witness ==
    /\ pc = "lines"
    /\ ~config.reset
    /\ idx >= 2
    /\ Len(state) = 1
    /\ ~state[1][1]
    /\ state[1][2] = <<" ">>
    /\ file[idx] = <<"\t">>
    /\ out[idx] = <<"\t">>

\* the tokens of toks that are not spaces
RECURSIVE Unspaced(_)
Unspaced(toks) ==
    IF toks = <<>> THEN <<>>
    ELSE IF Head(toks) = <<" ">> THEN Unspaced(Tail(toks))
    ELSE <<Head(toks)>> \o Unspaced(Tail(toks))

\* every all() and any() of the tree g has a tree in its list
RECURSIVE ListsFilled(_)
ListsFilled(g) ==
    CASE g.tag = "Option" -> TRUE
      [] g.tag = "Not" -> ListsFilled(g.arg)
      [] OTHER -> g.list # <<>> /\ \A k \in 1..Len(g.list) : ListsFilled(g.list[k])

\* C17 as stated: a list of any() or all() holds at least one predicate, so no
\* input is parsed as Start with a tree that has an empty list; all(), any()
\* and all(,) are parse errors.
C17_ListNeedsPred ==
    /\ result.tag = "Start" => ListsFilled(result.group)
    /\ (result.tag # "none"
          /\ Unspaced(text) \in { <<TokAll, TokClose>>, <<TokAny, TokClose>>,
                                  <<TokAll, TokComma, TokClose>> })
           => result.tag = "Err"

\* the grammar on tokens, with PredList := (Pred ("," Pred)*)? ","? : the index
\* after a Pred that begins at token i, 0 when there is none
RECURSIVE PredEnd(_, _), ListEnd(_, _, _)
PredEnd(toks, i) ==
    IF i = 0 \/ i > Len(toks) THEN 0
    ELSE CASE toks[i] \in {TokAny, TokAll} ->
                  IF ListEnd(toks, i + 1, TRUE) <= Len(toks)
                        /\ toks[ListEnd(toks, i + 1, TRUE)] = TokClose
                  THEN ListEnd(toks, i + 1, TRUE) + 1
                  ELSE 0
           [] toks[i] = TokNot ->
                  IF PredEnd(toks, i + 1) # 0 /\ PredEnd(toks, i + 1) <= Len(toks)
                        /\ toks[PredEnd(toks, i + 1)] = TokClose
                  THEN PredEnd(toks, i + 1) + 1
                  ELSE 0
           [] toks[i] = TextFeatureA -> i + 1
           [] OTHER -> 0

\* the index after the PredList that begins at token i; first: no Pred yet
ListEnd(toks, i, first) ==
    IF first
    THEN IF PredEnd(toks, i) # 0 THEN ListEnd(toks, PredEnd(toks, i), FALSE)
         ELSE IF i <= Len(toks) /\ toks[i] = TokComma THEN i + 1
         ELSE i
    ELSE IF i <= Len(toks) /\ toks[i] = TokComma
         THEN IF PredEnd(toks, i + 1) # 0
              THEN ListEnd(toks, PredEnd(toks, i + 1), FALSE)
              ELSE i + 1
         ELSE i

\* the tokens are "end", or one Pred
Derives(toks) == toks = <<TokEnd>> \/ PredEnd(toks, 1) = Len(toks) + 1

\* C17 as amended: PredList is zero or more Pred separated by commas, with an
\* optional separator after them: an input is parsed exactly when its tokens
\* follow this grammar, and all(), any() and all(,) are parsed as Start with an
\* empty list.
C17_ListMayBeEmpty ==
    result.tag # "none" =>
        /\ result.tag # "Err" <=> Derives(Unspaced(text))
        /\ result.tag = "End" <=> Unspaced(text) = <<TokEnd>>
        /\ Unspaced(text) \in {<<TokAll, TokClose>>, <<TokAll, TokComma, TokClose>>}
               => result = CfgStart(All(<<>>))
        /\ Unspaced(text) = <<TokAny, TokClose>> => result = CfgStart(Any(<<>>))

\* "[cfg(all( ,))]" was parsed as Start with an empty list
C17_Witness ==
    /\ text = <<TokAll, TokSpace, TokComma, TokClose>>
    /\ result.tag = "Start"
    /\ result.group.tag = "All"
    /\ result.group.list = <<>>

\* no non-blank content line of lines begins with the marker after the prefix
\* required at it
Pristine(lines) ==
    \A k \in 1..Len(lines) :
        ContentLine(lines[k]) => ~Carries(lines[k], StackBefore(lines, k, ResetConfig))

\* C18: on a file in which no non-blank content line begins with the marker
\* after its required prefix, a completed non-reset pass followed by a reset pass
\* gives the file back line for line, the reset pass does not fail, and a reset
\* pass alone leaves the file as it is.
C18_ResetRestoresPristine ==
    /\ (pc = "done" /\ runs[Len(runs)].reset /\ (Len(runs) = 2 => ~runs[1].reset)) =>
           (Pristine(orig) => file = orig)
    /\ (pc = "panicked" /\ Len(runs) = 1 /\ ~runs[1].reset /\ config.reset) =>
           ~Pristine(orig)

\* a non-reset pass marked a line of a file without marked lines, and the reset
\* pass after it gave the file back
C18_Witness ==
    /\ pc = "done"
    /\ Len(runs) = 2
    /\ ~runs[1].reset
    /\ runs[2].reset
    /\ Pristine(orig)
    /\ before # orig
    /\ file = orig

\* C19: on a file in which no non-blank content line begins with the marker
\* after its required prefix, a completed pass with the features c2 after a
\* completed pass with the features c1 gives what the pass with c2 gives on the
\* file itself.
C19_HistoryIndependent ==
    (pc = "done" /\ Len(runs) = 2 /\ ~runs[1].reset /\ ~runs[2].reset) =>
        (Pristine(orig) => Completed(process(orig, runs[2], Desc), file))

\* the first pass marked a line, the second pass, with other features, took the
\* marker off again
C19_Witness ==
    /\ pc = "done"
    /\ Len(runs) = 2
    /\ ~runs[1].reset
    /\ ~runs[2].reset
    /\ runs[1] # runs[2]
    /\ Pristine(orig)
    /\ before # orig
    /\ file # before
    /\ Len(file) = Len(orig)

====
